---- MODULE Spec2Model ----
(***************************************************************************)
(* A model of package logger (logger.go) and of stripAnsi.                 *)
(*                                                                         *)
(* Strings and byte slices are sequences of one-character strings.  A      *)
(* goroutine is a process with a program counter over the statements of    *)
(* Logger.Output; sync.Mutex is a word that is free or held; an io.Writer  *)
(* is the sequence of the Write calls it received, each with the value it  *)
(* returned.                                                               *)
(***************************************************************************)
EXTENDS Naturals, Sequences, FiniteSets

(***************************************************************************)
(* Bounds of the model.                                                    *)
(***************************************************************************)
NumProcs == 2
MaxCalls == 2
MaxStrLen == 8

Procs == 1..NumProcs

(***************************************************************************)
(* Program constants.                                                      *)
(***************************************************************************)
DEBUG == 0
INFO == 1
WARNING == 2
ERROR == 3
CRITICAL == 4

Ldate == 1
Llongfile == 2
Lshortfile == 4
Lansi == 8
LstdFlags == Ldate + Lansi

NL == "\n"
defColorPrefix == <<">", ">", ">">>

\* time.RubyDate and time.Kitchen, cut down to the verbs the model renders:
\* "15" is the hour, "04" the minute, everything else is copied.
RubyDate == <<"15", ":", "04">>
Kitchen == <<"04", "P", "M">>

Stdout == "os.Stdout"
Stderr == "os.Stderr"
Nil == "nil"
Streams == {Stdout, Stderr}

\* the file and line runtime.Caller reports for the one call site modelled
CallerInfo == [file |-> "main.go", line |-> 7]

(***************************************************************************)
(* Input domains.                                                          *)
(***************************************************************************)
Levels == {DEBUG, INFO, WARNING, ERROR, CRITICAL}
Texts == { <<>>, <<"a">>, <<"a", NL>> }
Prefixes == {defColorPrefix, <<"#">>}
DateFormats == {RubyDate, Kitchen}
FlagValues == {LstdFlags, LstdFlags + Lshortfile, Ldate + Llongfile}
PrintfFormats == { <<"%s">>, <<"x", "=", "%s", NL>> }

(***************************************************************************)
(* Pure helpers.                                                           *)
(***************************************************************************)
Digits == <<"0", "1", "2", "3", "4", "5", "6", "7", "8", "9">>

Digit(k) == Digits[(k % 10) + 1]

\* f & m for the 4-bit flag words of the package
RECURSIVE BitAnd(_, _)
BitAnd(a, b) ==
    IF a = 0 \/ b = 0 THEN 0
    ELSE (a % 2) * (b % 2) + 2 * BitAnd(a \div 2, b \div 2)

\* time.Time.Format: every verb of the layout is rendered from t, every other
\* character is copied.
RECURSIVE Format(_, _)
Format(layout, t) ==
    IF layout = <<>> THEN <<>>
    ELSE LET h == Head(layout)
             r == IF h = "15" THEN Digit(t \div 10)
                  ELSE IF h = "04" THEN Digit(t)
                  ELSE h
         IN  <<r>> \o Format(Tail(layout), t)

\* fmt.Sprint of one string operand
Sprint(v) == v

\* fmt.Sprintln of one string operand
Sprintln(v) == v \o <<NL>>

\* fmt.Sprintf of a format with %s verbs and one string operand
RECURSIVE Sprintf(_, _)
Sprintf(format, v) ==
    IF format = <<>> THEN <<>>
    ELSE IF Head(format) = "%s" THEN v \o Sprintf(Tail(format), v)
    ELSE <<Head(format)>> \o Sprintf(Tail(format), v)

\* s contains sub as a contiguous subsequence
Contains(s, sub) ==
    \E i \in 0..Len(s) :
        /\ i + Len(sub) <= Len(s)
        /\ \A j \in 1..Len(sub) : s[i + j] = sub[j]

\* the number of newlines s ends with
RECURSIVE TrailingNewlines(_)
TrailingNewlines(s) ==
    IF s = <<>> \/ s[Len(s)] # NL THEN 0
    ELSE 1 + TrailingNewlines(SubSeq(s, 1, Len(s) - 1))

(***************************************************************************)
(* State.                                                                  *)
(***************************************************************************)
VARIABLES
    mu,          \* Logger.mu: 0 when free, else the goroutine that locked it
    buf,         \* Logger.buf
    dateFormat,  \* Logger.dateFormat
    flags,       \* Logger.flags
    level,       \* Logger.level
    prefix,      \* Logger.prefix
    stream,      \* Logger.stream
    pc,          \* per goroutine: the statement of Output it is at
    via,         \* per goroutine: the function that called Output
    text,        \* per goroutine: Output's text argument
    sarg,        \* per goroutine: Output's stream argument
    now,         \* per goroutine: Output's local now
    file,        \* per goroutine: Output's local file
    line,        \* per goroutine: Output's local line
    n,           \* per goroutine: Output's result n
    err,         \* per goroutine: Output's result err
    ret,         \* per goroutine: what its last finished call returned
    got,         \* per goroutine: what its last accessor call returned
    writers,     \* per stream: the Write calls received, [bytes, n, err]
    clock,       \* the wall clock time.Now reads
    fatal,       \* the runtime stopped the program (unlock of unlocked mutex)
    stext,       \* stripAnsi: the argument
    once,        \* stripAnsi(stext)
    twice,       \* stripAnsi(stripAnsi(stext))
    spc          \* stripAnsi driver: how many times it has been applied

loggerVars == <<mu, buf, dateFormat, flags, level, prefix, stream>>
localVars == <<pc, via, text, sarg, now, file, line, n, err, ret, got>>
envVars == <<writers, clock, fatal>>
stripVars == <<stext, once, twice, spc>>
vars == <<loggerVars, localVars, envVars, stripVars>>

NoResult == [n |-> 0, err |-> Nil]

\* what an io.Writer may answer to Write(b): all of b, or nothing and an error
WriteResults(b) == { [n |-> Len(b), err |-> Nil], [n |-> 0, err |-> "EIO"] }

\* a call of a function of the package begins: each begins at a later instant
\* than the calls before it, and MaxCalls calls are followed
Tick ==
    /\ clock < MaxCalls
    /\ clock' = clock + 1

(***************************************************************************)
(* sync.Mutex.                                                             *)
(***************************************************************************)
\* Lock blocks until the mutex is free
MuLock(p) ==
    /\ mu = 0
    /\ mu' = p

\* Unlock frees the mutex whoever holds it; on a free mutex it is the fatal
\* error "sync: unlock of unlocked mutex"
MuUnlock ==
    IF mu = 0
    THEN /\ fatal' = TRUE
         /\ mu' = mu
    ELSE /\ mu' = 0
         /\ fatal' = fatal

(***************************************************************************)
(* Logger.formatOutput: the date, then a newline when text is not empty    *)
(* and does not end with one.                                              *)
(***************************************************************************)
formatOutput(b, t, f, ln, txt) ==
    LET dated == b \o Format(dateFormat, t)
    IN  IF Len(txt) > 0 /\ txt[Len(txt)] # NL
        THEN dated \o <<NL>>
        ELSE dated

(***************************************************************************)
(* Logger.Output, one action per statement.                                *)
(***************************************************************************)
\* a goroutine enters Output(calldepth, txt, s) from function f: now := time.Now()
Enter(p, f, txt, s) ==
    /\ ~fatal
    /\ pc[p] = "idle"
    /\ Tick
    /\ now' = [now EXCEPT ![p] = clock']
    /\ via' = [via EXCEPT ![p] = f]
    /\ text' = [text EXCEPT ![p] = txt]
    /\ sarg' = [sarg EXCEPT ![p] = s]
    /\ pc' = [pc EXCEPT ![p] = "lock"]
    /\ UNCHANGED <<loggerVars, file, line, n, err, ret, got, writers, fatal, stripVars>>

\* l.Output(calldepth, text, stream) called directly
CallOutput(p) ==
    \E txt \in Texts, s \in {Nil, Stdout} : Enter(p, "Output", txt, s)

\* an Output that does not lock on entry
Lock_Missing(p) ==
    /\ ~fatal
    /\ pc[p] = "lock"
    /\ pc' = [pc EXCEPT ![p] = "check"]
    /\ UNCHANGED <<loggerVars, via, text, sarg, now, file, line, n, err, ret, got>>
    /\ UNCHANGED <<envVars, stripVars>>

\* l.mu.Lock(); defer l.mu.Unlock()
Lock(p) ==
    /\ ~fatal
    /\ pc[p] = "lock"
    /\ MuLock(p)
    /\ pc' = [pc EXCEPT ![p] = "check"]
    /\ UNCHANGED <<buf, dateFormat, flags, level, prefix, stream>>
    /\ UNCHANGED <<via, text, sarg, now, file, line, n, err, ret, got>>
    /\ UNCHANGED <<envVars, stripVars>>

\* if l.flags&(Lshortfile|Llongfile) != 0
CheckFlags(p) ==
    /\ ~fatal
    /\ pc[p] = "check"
    /\ pc' = [pc EXCEPT ![p] =
                IF BitAnd(flags, Lshortfile + Llongfile) # 0
                THEN "unlock" ELSE "reset"]
    /\ UNCHANGED <<loggerVars, via, text, sarg, now, file, line, n, err, ret, got>>
    /\ UNCHANGED <<envVars, stripVars>>

\* l.mu.Unlock() before the caller is resolved
Unlock(p) ==
    /\ ~fatal
    /\ pc[p] = "unlock"
    /\ MuUnlock
    /\ pc' = [pc EXCEPT ![p] = "caller"]
    /\ UNCHANGED <<buf, dateFormat, flags, level, prefix, stream>>
    /\ UNCHANGED <<via, text, sarg, now, file, line, n, err, ret, got>>
    /\ UNCHANGED <<writers, clock, stripVars>>

\* _, file, line, ok = runtime.Caller(calldepth); if !ok { file = "???"; line = 0 }
Caller(p) ==
    /\ ~fatal
    /\ pc[p] = "caller"
    /\ \E ok \in BOOLEAN :
        /\ file' = [file EXCEPT ![p] = IF ok THEN CallerInfo.file ELSE "???"]
        /\ line' = [line EXCEPT ![p] = IF ok THEN CallerInfo.line ELSE 0]
    /\ pc' = [pc EXCEPT ![p] = "relock"]
    /\ UNCHANGED <<loggerVars, via, text, sarg, now, n, err, ret, got>>
    /\ UNCHANGED <<envVars, stripVars>>

\* an Output that does not lock again after the caller is resolved
Relock_Missing(p) ==
    /\ ~fatal
    /\ pc[p] = "relock"
    /\ pc' = [pc EXCEPT ![p] = "reset"]
    /\ UNCHANGED <<loggerVars, via, text, sarg, now, file, line, n, err, ret, got>>
    /\ UNCHANGED <<envVars, stripVars>>

\* l.mu.Lock() after the caller is resolved
Relock(p) ==
    /\ ~fatal
    /\ pc[p] = "relock"
    /\ MuLock(p)
    /\ pc' = [pc EXCEPT ![p] = "reset"]
    /\ UNCHANGED <<buf, dateFormat, flags, level, prefix, stream>>
    /\ UNCHANGED <<via, text, sarg, now, file, line, n, err, ret, got>>
    /\ UNCHANGED <<envVars, stripVars>>

\* an Output that does not truncate the buffer
Reset_KeepBuf(p) ==
    /\ ~fatal
    /\ pc[p] = "reset"
    /\ pc' = [pc EXCEPT ![p] = "format"]
    /\ UNCHANGED <<loggerVars, via, text, sarg, now, file, line, n, err, ret, got>>
    /\ UNCHANGED <<envVars, stripVars>>

\* l.buf = l.buf[:0]
Reset(p) ==
    /\ ~fatal
    /\ pc[p] = "reset"
    /\ buf' = <<>>
    /\ pc' = [pc EXCEPT ![p] = "format"]
    /\ UNCHANGED <<mu, dateFormat, flags, level, prefix, stream>>
    /\ UNCHANGED <<via, text, sarg, now, file, line, n, err, ret, got>>
    /\ UNCHANGED <<envVars, stripVars>>

\* l.formatOutput(&l.buf, now, file, line, text)
FormatStep(p) ==
    /\ ~fatal
    /\ pc[p] = "format"
    /\ buf' = formatOutput(buf, now[p], file[p], line[p], text[p])
    /\ pc' = [pc EXCEPT ![p] = "write"]
    /\ UNCHANGED <<mu, dateFormat, flags, level, prefix, stream>>
    /\ UNCHANGED <<via, text, sarg, now, file, line, n, err, ret, got>>
    /\ UNCHANGED <<envVars, stripVars>>

\* an Output that ignores its stream argument
Target_LoggerStream(p) == stream

\* the io.Writer Output writes to: the argument unless it is nil
Target(p) == IF sarg[p] = Nil THEN stream ELSE sarg[p]

\* n, err = l.stream.Write(l.buf) or n, err = stream.Write(l.buf)
Write(p) ==
    /\ ~fatal
    /\ pc[p] = "write"
    /\ \E r \in WriteResults(buf) :
        /\ writers' = [writers EXCEPT ![Target(p)] =
                          Append(@, [bytes |-> buf, n |-> r.n, err |-> r.err])]
        /\ n' = [n EXCEPT ![p] = r.n]
        /\ err' = [err EXCEPT ![p] = r.err]
    /\ pc' = [pc EXCEPT ![p] = "return"]
    /\ UNCHANGED <<loggerVars, via, text, sarg, now, file, line, ret, got>>
    /\ UNCHANGED <<clock, fatal, stripVars>>

\* return int(n), err, and the deferred l.mu.Unlock()
Return(p) ==
    /\ ~fatal
    /\ pc[p] = "return"
    /\ MuUnlock
    /\ ret' = [ret EXCEPT ![p] = [n |-> n[p], err |-> err[p]]]
    /\ pc' = [pc EXCEPT ![p] = "idle"]
    /\ via' = [via EXCEPT ![p] = ""]
    /\ text' = [text EXCEPT ![p] = <<>>]
    /\ sarg' = [sarg EXCEPT ![p] = Nil]
    /\ now' = [now EXCEPT ![p] = 0]
    /\ file' = [file EXCEPT ![p] = ""]
    /\ line' = [line EXCEPT ![p] = 0]
    /\ n' = [n EXCEPT ![p] = 0]
    /\ err' = [err EXCEPT ![p] = Nil]
    /\ UNCHANGED <<buf, dateFormat, flags, level, prefix, stream>>
    /\ UNCHANGED <<got, writers, clock, stripVars>>

\* the statements of Output a goroutine inside it may take
OutputStep(p) ==
    \/ Lock(p)
    \/ CheckFlags(p)
    \/ Unlock(p)
    \/ Caller(p)
    \/ Relock(p)
    \/ Reset(p)
    \/ FormatStep(p)
    \/ Write(p)
    \/ Return(p)

(***************************************************************************)
(* A Logger made by New, used by goroutines that call Output.              *)
(***************************************************************************)
\* the goroutines' locals, the streams and the stripAnsi driver at start
InitRest ==
    /\ mu = 0
    /\ buf = <<>>
    /\ pc = [p \in Procs |-> "idle"]
    /\ via = [p \in Procs |-> ""]
    /\ text = [p \in Procs |-> <<>>]
    /\ sarg = [p \in Procs |-> Nil]
    /\ now = [p \in Procs |-> 0]
    /\ file = [p \in Procs |-> ""]
    /\ line = [p \in Procs |-> 0]
    /\ n = [p \in Procs |-> 0]
    /\ err = [p \in Procs |-> Nil]
    /\ ret = [p \in Procs |-> NoResult]
    /\ got = [p \in Procs |-> <<>>]
    /\ writers = [s \in Streams |-> <<>>]
    /\ clock = 0
    /\ fatal = FALSE

\* New(stream, prefix, dateFormat, logTemplate, level, flags)
Init ==
    /\ stream = Stderr
    /\ prefix = defColorPrefix
    /\ dateFormat = RubyDate
    /\ level = WARNING
    /\ flags \in {LstdFlags, LstdFlags + Lshortfile}
    /\ InitRest
    /\ stext = <<>>
    /\ once = <<>>
    /\ twice = <<>>
    /\ spc = 0

Next == \E p \in Procs : CallOutput(p) \/ OutputStep(p)

Spec == Init /\ [][Next]_vars

(***************************************************************************)
(* The standard logger std and the exported functions of the package that  *)
(* use it.  std is not exported: other packages reach it through these     *)
(* functions alone.  The accessors and mutators take no lock; each is one  *)
(* read or one write of a field, which a goroutine inside Output may see   *)
(* before or after any of its own statements.                              *)
(***************************************************************************)
\* std = New(os.Stderr, defColorPrefix, time.RubyDate, logFormat, WARNING, LstdFlags)
StdInit ==
    /\ stream = Stderr
    /\ prefix = defColorPrefix
    /\ dateFormat = RubyDate
    /\ level = WARNING
    /\ flags = LstdFlags
    /\ InitRest
    /\ stext = <<>>
    /\ once = <<>>
    /\ twice = <<>>
    /\ spc = 0

\* Print(v...): std.Output(2, fmt.Sprint(v...), os.Stdout)
PrintV(p) ==
    \E v \in Texts : Enter(p, "Print", Sprint(v), Stdout)

\* Println(v...): std.Output(2, fmt.Sprintln(v...), os.Stdout)
Println(p) ==
    \E v \in { <<>>, <<"a">> } : Enter(p, "Println", Sprintln(v), Stdout)

\* Printf(format, v...): std.Output(2, fmt.Sprintf(format, v...), os.Stdout)
Printf(p) ==
    \E f \in PrintfFormats : Enter(p, "Printf", Sprintf(f, <<"a">>), Stdout)

\* what an accessor or a mutator leaves alone besides the field it is about
AccessorFrame(p) ==
    /\ ~fatal
    /\ pc[p] = "idle"
    /\ Tick
    /\ UNCHANGED <<mu, buf, pc, via, text, sarg, now, file, line, n, err, ret>>
    /\ UNCHANGED <<writers, fatal, stripVars>>

\* Level(): return std.level
GetLevel(p) ==
    /\ AccessorFrame(p)
    /\ got' = [got EXCEPT ![p] = <<"Level", level>>]
    /\ UNCHANGED <<dateFormat, flags, level, prefix, stream>>

\* SetLevel(level): std.level = level
SetLevel(p) ==
    /\ AccessorFrame(p)
    /\ \E v \in Levels : level' = v
    /\ UNCHANGED <<dateFormat, flags, prefix, stream, got>>

\* Stream(): return std.stream
GetStream(p) ==
    /\ AccessorFrame(p)
    /\ got' = [got EXCEPT ![p] = <<"Stream", stream>>]
    /\ UNCHANGED <<dateFormat, flags, level, prefix, stream>>

\* SetStream(stream): std.stream = stream
SetStream(p) ==
    /\ AccessorFrame(p)
    /\ \E v \in Streams : stream' = v
    /\ UNCHANGED <<dateFormat, flags, level, prefix, got>>

\* Prefix(): return std.prefix
GetPrefix(p) ==
    /\ AccessorFrame(p)
    /\ got' = [got EXCEPT ![p] = <<"Prefix", prefix>>]
    /\ UNCHANGED <<dateFormat, flags, level, prefix, stream>>

\* SetPrefix(prefix): std.prefix = prefix
SetPrefix(p) ==
    /\ AccessorFrame(p)
    /\ \E v \in Prefixes : prefix' = v
    /\ UNCHANGED <<dateFormat, flags, level, stream, got>>

\* DateFormat(): return std.dateFormat
GetDateFormat(p) ==
    /\ AccessorFrame(p)
    /\ got' = [got EXCEPT ![p] = <<"DateFormat", dateFormat>>]
    /\ UNCHANGED <<dateFormat, flags, level, prefix, stream>>

\* SetDateFormat(format): std.dateFormat = format
SetDateFormat(p) ==
    /\ AccessorFrame(p)
    /\ \E v \in DateFormats : dateFormat' = v
    /\ UNCHANGED <<flags, level, prefix, stream, got>>

\* Flags(): return std.flags
GetFlags(p) ==
    /\ AccessorFrame(p)
    /\ got' = [got EXCEPT ![p] = <<"Flags", flags>>]
    /\ UNCHANGED <<dateFormat, flags, level, prefix, stream>>

\* SetFlags(flags): std.flags = flags
SetFlags(p) ==
    /\ AccessorFrame(p)
    /\ \E v \in FlagValues : flags' = v
    /\ UNCHANGED <<dateFormat, level, prefix, stream, got>>

StdNext ==
    \E p \in Procs :
        \/ PrintV(p)
        \/ Println(p)
        \/ Printf(p)
        \/ OutputStep(p)
        \/ GetLevel(p)
        \/ SetLevel(p)
        \/ GetStream(p)
        \/ SetStream(p)
        \/ GetPrefix(p)
        \/ SetPrefix(p)
        \/ GetDateFormat(p)
        \/ SetDateFormat(p)
        \/ GetFlags(p)
        \/ SetFlags(p)

StdSpec == StdInit /\ [][StdNext]_vars

(***************************************************************************)
(* stripAnsi: regexp "\x1b\[\d+m", ReplaceAllString(text, "").             *)
(***************************************************************************)
ESC == "\\x1b"
Alphabet == {ESC, "[", "1", "m"}

IsDigit(c) == c \in {"0", "1", "2", "3", "4", "5", "6", "7", "8", "9"}

\* the first position from i on that holds no digit (\d+ is greedy)
RECURSIVE DigitsEnd(_, _)
DigitsEnd(s, i) ==
    IF i <= Len(s) /\ IsDigit(s[i]) THEN DigitsEnd(s, i + 1) ELSE i

\* the position of the last character of a match of the expression that begins
\* at i, or 0 when none begins there
MatchEnd(s, i) ==
    IF /\ i + 3 <= Len(s)
       /\ s[i] = ESC
       /\ s[i + 1] = "["
       /\ IsDigit(s[i + 2])
    THEN LET j == DigitsEnd(s, i + 2)
         IN  IF j <= Len(s) /\ s[j] = "m" THEN j ELSE 0
    ELSE 0

\* ReplaceAllString from position i: the matches are found left to right in
\* the argument, do not overlap, and each is replaced by ""
RECURSIVE ReplaceAllFrom(_, _)
ReplaceAllFrom(s, i) ==
    IF i > Len(s) THEN <<>>
    ELSE LET e == MatchEnd(s, i)
         IN  IF e # 0
             THEN ReplaceAllFrom(s, e + 1)
             ELSE <<s[i]>> \o ReplaceAllFrom(s, i + 1)

stripAnsi(s) == ReplaceAllFrom(s, 1)

\* the strings stripAnsi is applied to
StripInputs == UNION { [1..k -> Alphabet] : k \in 0..MaxStrLen }

StripInit ==
    /\ stext \in StripInputs
    /\ once = <<>>
    /\ twice = <<>>
    /\ spc = 0
    /\ stream = Stderr
    /\ prefix = defColorPrefix
    /\ dateFormat = RubyDate
    /\ level = WARNING
    /\ flags = LstdFlags
    /\ InitRest

\* once = stripAnsi(stext)
StripOnce ==
    /\ spc = 0
    /\ once' = stripAnsi(stext)
    /\ spc' = 1
    /\ UNCHANGED <<stext, twice, loggerVars, localVars, envVars>>

\* twice = stripAnsi(once)
StripTwice ==
    /\ spc = 1
    /\ twice' = stripAnsi(once)
    /\ spc' = 2
    /\ UNCHANGED <<stext, once, loggerVars, localVars, envVars>>

StripNext == StripOnce \/ StripTwice

StripSpec == StripInit /\ [][StripNext]_vars

\* C7: stripAnsi is idempotent: once it has been applied twice to a string,
\* the second result equals the first.
C7_StripIdempotent == spc = 2 => twice = once

(***************************************************************************)
(* The locking of Output under the scheduling of the Go runtime.  The lock *)
(* operations of Output depend on the flags alone, so the calls here all   *)
(* pass the same text and a nil stream.  A goroutine that can take a step  *)
(* takes it, and a goroutine waiting in Lock gets the mutex when it is     *)
(* freed again and again (sync.Mutex hands a starving waiter the mutex).   *)
(***************************************************************************)
\* l.Output(2, "a", nil)
CallPlain(p) == Enter(p, "Output", <<"a">>, Nil)

LockNext == \E p \in Procs : CallPlain(p) \/ OutputStep(p)

FairSpec ==
    /\ Init
    /\ [][LockNext]_vars
    /\ \A p \in Procs :
        /\ WF_vars(OutputStep(p))
        /\ SF_vars(Lock(p))
        /\ SF_vars(Relock(p))

(***************************************************************************)
(* Properties.                                                             *)
(***************************************************************************)
\* the last Write call stream s received
LastWrite(s) == writers[s][Len(writers[s])]

\* all the Write calls received so far
Writes == Len(writers[Stdout]) + Len(writers[Stderr])

\* the bytes a call of goroutine p formats into an empty buffer
OwnBytes(p) == formatOutput(<<>>, now[p], file[p], line[p], text[p])

\* goroutine p is after its buffer reset and before the end of its Write
InSection(p) == pc[p] \in {"format", "write"}

\* C1: at most one caller is between its buffer reset and the end of its
\* Write, that caller holds the mutex, and the buffer it hands to Write holds
\* exactly the bytes its own call formatted.
C1_Serialized ==
    \A p \in Procs :
        /\ InSection(p) =>
              /\ mu = p
              /\ \A q \in Procs \ {p} : ~InSection(q)
        /\ pc[p] = "write" => buf = OwnBytes(p)

\* C1 witness: one caller is about to Write while another waits for the mutex.
C1_Witness ==
    \E p \in Procs, q \in Procs :
        /\ p # q
        /\ pc[p] = "write"
        /\ pc[q] \in {"lock", "relock"}

\* C2: the bytes a call wrote end with exactly one newline.
C2_OneNewline ==
    \A p \in Procs :
        pc[p] = "return" => TrailingNewlines(LastWrite(Target(p)).bytes) = 1

\* C3: the bytes a call wrote contain its message text, the prefix of the
\* logger and the rendered date.
C3_LineContents ==
    \A p \in Procs :
        pc[p] = "return" =>
            LET b == LastWrite(Target(p)).bytes
            IN  /\ Contains(b, text[p])
                /\ Contains(b, prefix)
                /\ Contains(b, Format(dateFormat, now[p]))

\* C4: the Write of a call of Print, Println or Printf is received by the
\* stream that is the standard logger's output stream at that moment.
C4_PrintToLoggerStream ==
    [][\A p \in Procs :
          (/\ via[p] \in {"Print", "Println", "Printf"}
           /\ pc[p] = "write"
           /\ pc'[p] = "return")
          => writers'[stream] =
                 Append(writers[stream],
                        [bytes |-> buf, n |-> n'[p], err |-> err'[p]])]_vars

\* C5: the Write step of a call adds exactly one Write call, with the buffer,
\* to the stream argument when it is not nil and to the logger's stream
\* otherwise, the other stream receives nothing, no other step makes a Write
\* call, a call returns only after its Write step, and it returns the pair
\* that Write call returned.
C5_OneWrite ==
    [][/\ \A p \in Procs :
            /\ (pc[p] = "write" /\ pc'[p] # "write") =>
                  LET t == IF sarg[p] # Nil THEN sarg[p] ELSE stream
                  IN  /\ pc'[p] = "return"
                      /\ Len(writers'[t]) = Len(writers[t]) + 1
                      /\ SubSeq(writers'[t], 1, Len(writers[t])) = writers[t]
                      /\ writers'[t][Len(writers'[t])].bytes = buf
                      /\ n'[p] = writers'[t][Len(writers'[t])].n
                      /\ err'[p] = writers'[t][Len(writers'[t])].err
                      /\ \A s \in Streams \ {t} : writers'[s] = writers[s]
            /\ (pc[p] # "idle" /\ pc'[p] = "idle") =>
                  /\ pc[p] = "return"
                  /\ ret'[p] = [n |-> n[p], err |-> err[p]]
            /\ (pc[p] # "return" /\ pc'[p] = "return") => pc[p] = "write"
       /\ writers' # writers =>
            \E p \in Procs : pc[p] = "write" /\ pc'[p] = "return"]_vars

\* C5 witness: after a call with a nil stream argument made its Write call
\* on the logger's stream, a call with a stream argument has made its Write
\* call on that argument, and the Write failed.
C5_Witness ==
    \E p \in Procs :
        /\ pc[p] = "return"
        /\ sarg[p] = Stdout
        /\ stream = Stderr
        /\ Len(writers[Stdout]) = 1
        /\ Len(writers[Stderr]) = 1
        /\ err[p] # Nil

\* C6: no accessor reads and no mutator writes a field of the standard logger
\* while a goroutine holds the mutex of Output.
C6_AccessorsLocked ==
    [][(\/ <<dateFormat, flags, level, prefix, stream>>'
              # <<dateFormat, flags, level, prefix, stream>>
        \/ got' # got)
       => mu = 0]_vars

\* C8: a call whose caller resolution failed has file "???" and line 0, has
\* not stopped the program, and wrote bytes that contain its message text.
C8_CallerFailure ==
    \A p \in Procs :
        (pc[p] = "return" /\ file[p] = "???") =>
            /\ line[p] = 0
            /\ ~fatal
            /\ Contains(LastWrite(Target(p)).bytes, text[p])

\* C9: the bytes a call wrote are the bytes its timestamp, its text and the
\* configuration format into an empty buffer: nothing of an earlier call is
\* in them.
C9_FreshBuffer ==
    \A p \in Procs :
        pc[p] = "return" =>
            /\ Writes >= 1
            /\ LastWrite(Target(p)).bytes = OwnBytes(p)

\* C9 witness: a call has written after an earlier call had written.
C9_Witness ==
    \E p \in Procs :
        /\ pc[p] = "return"
        /\ Writes >= 2
        /\ buf # <<>>

\* C10: the program never unlocks a free mutex, a goroutine at an Unlock
\* holds the mutex, a goroutine outside Output or waiting in Lock or
\* resolving the caller does not hold it, and every call of Output returns.
C10_LockDiscipline ==
    /\ [](/\ ~fatal
          /\ \A p \in Procs :
                /\ pc[p] \in {"unlock", "return"} => mu = p
                /\ pc[p] \in {"idle", "lock", "caller", "relock"} => mu # p)
    /\ \A p \in Procs : (pc[p] # "idle") ~> (pc[p] = "idle")

\* C10 witness: while one caller resolves its caller with the mutex released,
\* another caller holds the mutex and has completed its Write.
C10_Witness ==
    \E p \in Procs, q \in Procs :
        /\ pc[p] = "caller"
        /\ pc[q] = "return"
        /\ mu = q

====
